---- MODULE Spec2Model ----
(***************************************************************************)
(* A model of sup's task construction (task.go): Stackup.createTasks, which *)
(* turns one Command and the ordered client list into an ordered list of   *)
(* CommandTask / TemplateTask values, and TemplateTask.InputForClient,     *)
(* which renders the parsed template for one client.                       *)
(*                                                                         *)
(* createTasks is modelled section by section, in the order of the code:   *)
(* os.Getwd, one step per Upload entry, Template, Script, Local, Run, and  *)
(* the final return.  Everything the environment decides (whether a file   *)
(* opens, what it holds, whether it parses) is chosen when the code reads  *)
(* it.  A Go run-time panic (clients[0] on an empty slice, a slice         *)
(* expression out of range) ends the call in pc = "panic".                 *)
(***************************************************************************)
EXTENDS Integers, Sequences, FiniteSets, TLC

\* ---------------------------------------------------------------- bounds
MaxClients == 5
MaxSerial == 3
MaxUpload == 2
MaxCalls == 2

VARIABLES
    cmd,        \* the *Command argument (read-only)
    clients,    \* the []Client argument (read-only)
    debug,      \* sup.debug
    pc,         \* where createTasks stands
    u,          \* index of the next Upload entry of the range loop (1-based)
    tasks,      \* the local variable tasks
    data,       \* what ioutil.ReadAll returned for the script file
    failed,     \* history: the step of the environment that failed, "" if none
    result,     \* what createTasks returned: [tasks, err], err = "" for nil
    heap,       \* the bytes.Buffer values allocated by InputForClient
    calls       \* history: the InputForClient calls made, in order

vars == <<cmd, clients, debug, pc, u, tasks, data, failed, result, heap, calls>>

\* ---------------------------------------------------------------- values
\* The env argument of createTasks.
EnvPrefix == "export SUP_NETWORK=\"prod\";"

\* The clients handed in: distinct connected client objects, one per host.
RemoteClient(k) == [kind |-> "ssh", host |-> k, env |-> EnvPrefix]

ClientList(n) == [k \in 1..n |-> RemoteClient(k)]

\* The client the Local section builds.
LocalhostClient == [kind |-> "localhost", host |-> 0,
                    env |-> EnvPrefix \o "export SUP_HOST=\"localhost\";"]

UploadEntry(k) == [Src |-> "src" \o ToString(k), Dst |-> "/dst" \o ToString(k),
                   Exc |-> ""]

UploadList(n) == [k \in 1..n |-> UploadEntry(k)]

TemplateConfigs ==
    { [Src |-> "", Dst |-> "", Vars |-> ""],
      [Src |-> "test.tpl", Dst |-> "", Vars |-> ""],
      [Src |-> "test.tpl", Dst |-> "/tmp/test", Vars |-> ""],
      [Src |-> "test.tpl", Dst |-> "/tmp/my test", Vars |-> "test.yml"] }

\* A template file is a list of pieces: literal text, the client's host, a
\* variable, a field the client does not have (an error when executed), or
\* an action that is never closed (an error when parsed).
Text(s) == [op |-> "text", arg |-> s]
ClientHost == [op |-> "client", arg |-> ""]
Var(k) == [op |-> "var", arg |-> k]
NoSuchField == [op |-> "nofield", arg |-> ""]
Unclosed == [op |-> "unclosed", arg |-> ""]

TemplateFiles ==
    { <<Text("host="), ClientHost, Var("role")>>,
      <<ClientHost, NoSuchField>>,
      <<Text("x"), Unclosed>> }

VarKeys == {"role"}
NoValue == "<no value>"

\* A variable file either decodes to a mapping or does not decode.
VarFiles == { [ok |-> TRUE, map |-> [k \in VarKeys |-> "web"]],
              [ok |-> FALSE, map |-> [k \in VarKeys |-> NoValue]] }

ScriptFiles == { "uptime", "set -x;ls" }

\* ------------------------------------------------------- external helpers
\* RemoteTarCommand(dir), tar.go.
RemoteTarCommand(dir) == "tar -C \"" \o dir \o "\" -xzf -"

\* shellescape.Quote: a string of safe characters is returned as it is, any
\* other is wrapped in single quotes.
SafeStrings == {"/tmp/test"}

Quote(s) == IF s = "" THEN "''" ELSE IF s \in SafeStrings THEN s ELSE "'" \o s \o "'"

\* template.New("tpl").Parse(string(data))
Parse(file) ==
    IF \E k \in DOMAIN file : file[k].op = "unclosed"
    THEN [ok |-> FALSE, tmpl |-> <<>>]
    ELSE [ok |-> TRUE, tmpl |-> file]

\* ------------------------------------------------------------ task values
CommandTask(run, input, tty, sect, entry) ==
    [type |-> "CommandTask", run |-> run, input |-> input, clients |-> <<>>,
     tty |-> tty, sect |-> sect, entry |-> entry]

TemplateTask(tmpl, dst, tvars) ==
    [type |-> "TemplateTask", tmpl |-> tmpl, dst |-> dst, vars |-> tvars,
     clients |-> <<>>, sect |-> "template", entry |-> 0]

Run(t) == IF t.type = "TemplateTask" THEN "cat > " \o Quote(t.dst) ELSE t.run

TTY(t) == IF t.type = "TemplateTask" THEN FALSE ELSE t.tty

\* ------------------------------------------------------ client partition
\* clients[i:j]: Go panics unless 0 <= i <= j <= len(clients).
SliceInRange(cl, i, j) == 0 <= i /\ i <= j /\ j <= Len(cl)

Slice(cl, i, j) == SubSeq(cl, i + 1, j)

\* j := i + cmd.Serial; if j > len(clients) { j = len(clients) }
ChunkEnd(i, n, len) == IF i + n > len THEN len ELSE i + n

\* A variant of the loop step that advances by one client instead of a chunk.
NextChunkByOne(i, n) == i + 1

\* i += cmd.Serial
NextChunk(i, n) == i + n

\* for i := 0; i < len(clients); i += cmd.Serial { ... append(tasks, &copy) }
RECURSIVE SerialLoop(_, _, _, _, _)
SerialLoop(task, cl, n, i, acc) ==
    IF ~(i < Len(cl))
    THEN [panic |-> FALSE, out |-> acc]
    ELSE LET j == ChunkEnd(i, n, Len(cl)) IN
         IF ~SliceInRange(cl, i, j)
         THEN [panic |-> TRUE, out |-> acc]
         ELSE SerialLoop(task, cl, n, NextChunk(i, n),
                         Append(acc, [task EXCEPT !.clients = Slice(cl, i, j)]))

\* task.clients = []Client{clients[0]}: a panic on an empty list.
OnceBranch(task) ==
    IF Len(clients) = 0
    THEN [panic |-> TRUE, out |-> <<>>]
    ELSE [panic |-> FALSE, out |-> <<[task EXCEPT !.clients = <<clients[1]>>]>>]

\* task.clients = clients
AllBranch(task) == [panic |-> FALSE, out |-> <<[task EXCEPT !.clients = clients]>>]

\* A variant that tests cmd.Serial before cmd.Once.
PartitionSerialFirst(task) ==
    IF cmd.Serial > 0 THEN SerialLoop(task, clients, cmd.Serial, 0, <<>>)
    ELSE IF cmd.Once THEN OnceBranch(task)
    ELSE AllBranch(task)

\* The if cmd.Once / else if cmd.Serial > 0 / else of Upload, Script and Run.
PartitionOnceSerial(task) ==
    IF cmd.Once THEN OnceBranch(task)
    ELSE IF cmd.Serial > 0 THEN SerialLoop(task, clients, cmd.Serial, 0, <<>>)
    ELSE AllBranch(task)

\* A variant in which the Template section honours cmd.Once as the other
\* sections do.
PartitionTemplateOnce(task) ==
    IF cmd.Once THEN OnceBranch(task)
    ELSE IF cmd.Serial > 0 THEN SerialLoop(task, clients, cmd.Serial, 0, <<>>)
    ELSE AllBranch(task)

\* The if cmd.Serial > 0 / else of Template: cmd.Once is not read.
PartitionSerial(task) ==
    IF cmd.Serial > 0 THEN SerialLoop(task, clients, cmd.Serial, 0, <<>>)
    ELSE AllBranch(task)

\* A variant that puts the new tasks in front of the list.
PrependTasks(ts, new) == new \o ts

\* tasks = append(tasks, ...)
AppendTasks(ts, new) == ts \o new

\* A variant that adds the trace prefix whether or not sup.debug is set.
TraceAlways(run) == "set -x;" \o run

\* if sup.debug { task.run = "set -x;" + task.run }
DebugPrefix(run) == IF debug THEN "set -x;" \o run ELSE run

\* if cmd.Stdin { task.input = os.Stdin }
StdinInput == IF cmd.Stdin THEN "os.Stdin" ELSE "nil"

\* ------------------------------------------------------------ createTasks
TemplatePopulated == cmd.Template.Src # "" /\ cmd.Template.Dst # ""

Returns(ts, e) == pc' = "done" /\ result' = [tasks |-> ts, err |-> e]

\* A variant of the error return that hands back the tasks built so far.
AbortPartial(msg) == Returns(tasks, msg)

\* return nil, errors.Wrap(err, msg)
Abort(msg) == Returns(<<>>, msg)

\* The tasks of one section are appended and control moves on, or the
\* partition panicked.
Emit(p, next) ==
    IF p.panic
    THEN pc' = "panic" /\ UNCHANGED tasks
    ELSE pc' = next /\ tasks' = AppendTasks(tasks, p.out)

Getwd ==
    /\ pc = "getwd"
    /\ \E ok \in BOOLEAN :
         IF ok
         THEN pc' = "upload" /\ UNCHANGED <<result, failed>>
         ELSE Abort("resolving CWD failed") /\ failed' = "os.Getwd"
    /\ UNCHANGED <<cmd, clients, debug, u, tasks, data, heap, calls>>

UploadStep ==
    /\ pc = "upload"
    /\ u <= Len(cmd.Upload)
    /\ LET upload == cmd.Upload[u] IN
       \E outcome \in {"ok", "ResolveLocalPath", "NewTarStreamReader"} :
         IF outcome # "ok"
         THEN /\ Abort("upload: " \o upload.Src)
              /\ failed' = outcome
              /\ UNCHANGED <<u, tasks>>
         ELSE LET task == CommandTask(RemoteTarCommand(upload.Dst),
                                      "tar:" \o upload.Src, FALSE, "upload", u)
              IN /\ Emit(PartitionOnceSerial(task), "upload")
                 /\ u' = IF pc' = "panic" THEN u ELSE u + 1
                 /\ UNCHANGED <<result, failed>>
    /\ UNCHANGED <<cmd, clients, debug, data, heap, calls>>

UploadDone ==
    /\ pc = "upload"
    /\ u > Len(cmd.Upload)
    /\ pc' = "template"
    /\ UNCHANGED <<cmd, clients, debug, u, tasks, data, failed, result, heap, calls>>

TemplateSkip ==
    /\ pc = "template"
    /\ ~TemplatePopulated
    /\ pc' = "script"
    /\ UNCHANGED <<cmd, clients, debug, u, tasks, data, failed, result, heap, calls>>

\* The variable mapping: empty without a variable file.
NoVars == [k \in VarKeys |-> NoValue]

TemplateBuild ==
    /\ pc = "template"
    /\ TemplatePopulated
    /\ \E io \in {"ok", "open", "read"}, file \in TemplateFiles,
          vio \in {"ok", "open", "read"}, varfile \in VarFiles :
         LET parsed == Parse(file)
             withVars == cmd.Template.Vars # ""
             tvars == IF withVars THEN varfile.map ELSE NoVars
             task == TemplateTask(parsed.tmpl, cmd.Template.Dst, tvars)
         IN IF io # "ok"
            THEN /\ Abort("can't open template")
                 /\ failed' = "template " \o io
                 /\ UNCHANGED tasks
            ELSE IF ~parsed.ok
            THEN /\ Abort("can't parse template")
                 /\ failed' = "template parse"
                 /\ UNCHANGED tasks
            ELSE IF withVars /\ vio # "ok"
            THEN /\ Abort("can't read variables")
                 /\ failed' = "variables " \o vio
                 /\ UNCHANGED tasks
            ELSE IF withVars /\ ~varfile.ok
            THEN /\ Abort("can't parse variables")
                 /\ failed' = "variables decode"
                 /\ UNCHANGED tasks
            ELSE /\ Emit(PartitionSerial(task), "script")
                 /\ UNCHANGED <<result, failed>>
    /\ UNCHANGED <<cmd, clients, debug, u, data, heap, calls>>

ScriptSkip ==
    /\ pc = "script"
    /\ cmd.Script = ""
    /\ pc' = "local"
    /\ UNCHANGED <<cmd, clients, debug, u, tasks, data, failed, result, heap, calls>>

ScriptBuild ==
    /\ pc = "script"
    /\ cmd.Script # ""
    /\ \E io \in {"ok", "open", "read"}, file \in ScriptFiles :
         IF io # "ok"
         THEN /\ Abort("can't " \o io \o " script")
              /\ failed' = "script " \o io
              /\ UNCHANGED <<tasks, data>>
         ELSE LET task == CommandTask(DebugPrefix(file), StdinInput, TRUE, "script", 0)
              IN /\ data' = file
                 /\ Emit(PartitionOnceSerial(task), "local")
                 /\ UNCHANGED <<result, failed>>
    /\ UNCHANGED <<cmd, clients, debug, u, heap, calls>>

LocalSkip ==
    /\ pc = "local"
    /\ cmd.Local = ""
    /\ pc' = "run"
    /\ UNCHANGED <<cmd, clients, debug, u, tasks, data, failed, result, heap, calls>>

LocalBuild ==
    /\ pc = "local"
    /\ cmd.Local # ""
    /\ LET task == [CommandTask(DebugPrefix(cmd.Local), StdinInput, TRUE, "local", 0)
                      EXCEPT !.clients = <<LocalhostClient>>]
       IN tasks' = AppendTasks(tasks, <<task>>)
    /\ pc' = "run"
    /\ UNCHANGED <<cmd, clients, debug, u, data, failed, result, heap, calls>>

RunSkip ==
    /\ pc = "run"
    /\ cmd.Run = ""
    /\ pc' = "return"
    /\ UNCHANGED <<cmd, clients, debug, u, tasks, data, failed, result, heap, calls>>

RunBuild ==
    /\ pc = "run"
    /\ cmd.Run # ""
    /\ LET task == CommandTask(DebugPrefix(cmd.Run), StdinInput, TRUE, "run", 0)
       IN Emit(PartitionOnceSerial(task), "return")
    /\ UNCHANGED <<cmd, clients, debug, u, data, failed, result, heap, calls>>

\* return tasks, nil
ReturnTasks ==
    /\ pc = "return"
    /\ Returns(tasks, "")
    /\ UNCHANGED <<cmd, clients, debug, u, tasks, data, failed, heap, calls>>

createTasks ==
    \/ Getwd
    \/ UploadStep
    \/ UploadDone
    \/ TemplateSkip
    \/ TemplateBuild
    \/ ScriptSkip
    \/ ScriptBuild
    \/ LocalSkip
    \/ LocalBuild
    \/ RunSkip
    \/ RunBuild
    \/ ReturnTasks

\* --------------------------------------------------------- InputForClient
\* What one piece of the template writes for client c.
Piece(p, c, tvars) ==
    IF p.op = "text" THEN p.arg
    ELSE IF p.op = "client" THEN "host" \o ToString(c.host)
    ELSE tvars[p.arg]

\* t.tmpl.Execute(&buffer, context): the pieces are written in order, and the
\* first piece that cannot be evaluated ends the execution with an error.
RECURSIVE Execute(_, _, _, _)
Execute(tmpl, c, tvars, buf) ==
    IF tmpl = <<>> THEN [buf |-> buf, err |-> ""]
    ELSE IF Head(tmpl).op = "nofield"
    THEN [buf |-> buf, err |-> "can't evaluate field"]
    ELSE Execute(Tail(tmpl), c, tvars, Append(buf, Piece(Head(tmpl), c, tvars)))

\* A variant that keeps one buffer for the task: every call writes into the
\* buffer of the first call.
InputForClientSharedBuffer(t, c, h) ==
    LET r == Execute(t.tmpl, c, t.vars, IF h = <<>> THEN <<>> ELSE h[1])
    IN [task |-> t,
        heap |-> IF h = <<>> THEN <<r.buf>> ELSE [h EXCEPT ![1] = r.buf],
        reader |-> IF r.err = "" THEN 1 ELSE 0,
        err |-> r.err]

\* TemplateTask.InputForClient on heap h: a new buffer (var buffer
\* bytes.Buffer), executed into, and returned unless the execution failed
\* (reader 0 is the nil io.Reader).  The task is handed back as it was.
InputForClientCall(t, c, h) ==
    LET r == Execute(t.tmpl, c, t.vars, <<>>)
    IN [task |-> t,
        heap |-> Append(h, r.buf),
        reader |-> IF r.err = "" THEN Len(h) + 1 ELSE 0,
        err |-> r.err]

\* The driver asks a returned template task for the input of one client.
InputForClient ==
    /\ pc = "done"
    /\ result.err = ""
    /\ Len(calls) < MaxCalls
    /\ \E k \in DOMAIN result.tasks, i \in DOMAIN clients :
         /\ result.tasks[k].type = "TemplateTask"
         /\ LET r == InputForClientCall(result.tasks[k], clients[i], heap)
            IN /\ result' = [result EXCEPT !.tasks[k] = r.task]
               /\ heap' = r.heap
               /\ calls' = Append(calls, [client |-> clients[i],
                                          reader |-> r.reader, err |-> r.err])
    /\ UNCHANGED <<cmd, clients, debug, pc, u, tasks, data, failed>>

\* ------------------------------------------------------------------ Init
Commands ==
    [Upload : {UploadList(n) : n \in 0..MaxUpload},
     Template : TemplateConfigs,
     Script : {"", "deploy.sh"},
     Local : {"", "echo hi"},
     Run : {"", "uptime"},
     Once : BOOLEAN,
     Serial : 0..MaxSerial,
     Stdin : BOOLEAN]

Init ==
    /\ cmd \in Commands
    /\ clients \in {ClientList(n) : n \in 0..MaxClients}
    /\ debug \in BOOLEAN
    /\ pc = "getwd"
    /\ u = 1
    /\ tasks = <<>>
    /\ data = ""
    /\ failed = ""
    /\ result = [tasks |-> <<>>, err |-> ""]
    /\ heap = <<>>
    /\ calls = <<>>

Next == createTasks

Spec == Init /\ [][Next]_vars

\* A command that holds a template only, built and then dispatched.
InitDispatch ==
    /\ Init
    /\ cmd.Upload = <<>>
    /\ cmd.Script = ""
    /\ cmd.Local = ""
    /\ cmd.Run = ""
    /\ ~cmd.Stdin
    /\ ~debug
    /\ TemplatePopulated

NextDispatch ==
    \/ Getwd
    \/ UploadDone
    \/ TemplateBuild
    \/ ScriptSkip
    \/ LocalSkip
    \/ RunSkip
    \/ ReturnTasks
    \/ InputForClient

SpecDispatch == InitDispatch /\ [][NextDispatch]_vars

\* ------------------------------------------------------------ properties
Returned == pc = "done" /\ result.err = ""

Range(f) == {f[k] : k \in DOMAIN f}

Min(a, b) == IF a < b THEN a ELSE b

CeilDiv(a, n) == (a + n - 1) \div n

RECURSIVE Flatten(_)
Flatten(ss) == IF ss = <<>> THEN <<>> ELSE Head(ss) \o Flatten(Tail(ss))

\* The tasks of ts that one section (one Upload entry) appended, in order.
Group(ts, g) == SelectSeq(ts, LAMBDA t : t.sect = g[1] /\ t.entry = g[2])

ClientSets(ts) == [k \in DOMAIN ts |-> ts[k].clients]

\* The consecutive chunks of size n of a list, the last one possibly shorter.
Chunks(cl, n) ==
    [k \in 1..CeilDiv(Len(cl), n) |-> SubSeq(cl, (k - 1) * n + 1, Min(k * n, Len(cl)))]

\* cl[lo..hi] for some lo, hi: a contiguous, order-preserving slice.
IsSliceOf(s, cl) ==
    \E lo \in 1..(Len(cl) + 1), hi \in 0..Len(cl) : s = SubSeq(cl, lo, hi)

UploadGroups == {<<"upload", k>> : k \in 1..Len(cmd.Upload)}

\* The populated sub-kinds whose client list is partitioned.
PartitionedGroups ==
    UploadGroups
    \cup (IF TemplatePopulated THEN {<<"template", 0>>} ELSE {})
    \cup (IF cmd.Script # "" THEN {<<"script", 0>>} ELSE {})
    \cup (IF cmd.Run # "" THEN {<<"run", 0>>} ELSE {})

\* C1: with Once = false and Serial = N > 0, every populated partitioned
\* sub-kind (each Upload entry, Template, Script, Run) of the returned list
\* holds exactly ceil(L/N) tasks, each with at most N clients; their client
\* sets, concatenated in task order, are the client list, and no client is in
\* two tasks of the sub-kind.
C1_SerialPartition ==
    (Returned /\ ~cmd.Once /\ cmd.Serial > 0) =>
        \A g \in PartitionedGroups :
            LET cs == ClientSets(Group(result.tasks, g)) IN
            /\ Len(cs) = CeilDiv(Len(clients), cmd.Serial)
            /\ \A k \in DOMAIN cs : Len(cs[k]) <= cmd.Serial
            /\ Flatten(cs) = clients
            /\ \A a, b \in DOMAIN cs : a # b => Range(cs[a]) \cap Range(cs[b]) = {}

C1_Witness ==
    /\ Returned /\ ~cmd.Once /\ cmd.Serial = 2 /\ Len(clients) = 5
    /\ PartitionedGroups = {<<"upload", 1>>, <<"upload", 2>>, <<"template", 0>>,
                            <<"script", 0>>, <<"run", 0>>}
    /\ \A g \in PartitionedGroups :
         [k \in 1..3 |-> Len(Group(result.tasks, g)[k].clients)] = <<2, 2, 1>>

\* C2: with Once = true and a non-empty client list, whatever Serial is, each
\* populated Upload entry, Script and Run yields exactly one task, and its
\* client set is the one-element list holding the first client.
C2_OnceFirstClient ==
    (Returned /\ cmd.Once /\ Len(clients) > 0) =>
        \A g \in PartitionedGroups \ {<<"template", 0>>} :
            ClientSets(Group(result.tasks, g)) = << <<clients[1]>> >>

C2_Witness ==
    /\ Returned /\ cmd.Once /\ cmd.Serial = 2 /\ Len(clients) = 5
    /\ Len(cmd.Upload) = 2 /\ cmd.Script # "" /\ cmd.Run # ""
    /\ ClientSets(Group(result.tasks, <<"run", 0>>)) = << <<clients[1]>> >>

\* C3: every task of the returned list has a non-empty client set, and that
\* set is a contiguous, order-preserving slice of the client list (the Local
\* task excepted from the slice condition), for every client list, the empty
\* one included.
C3_NonEmptyContiguous ==
    Returned =>
        \A k \in DOMAIN result.tasks :
            LET t == result.tasks[k] IN
            /\ Len(t.clients) > 0
            /\ t.sect # "local" => IsSliceOf(t.clients, clients)

\* The order the sections are declared in, populated ones only.
GroupOrder ==
    [k \in 1..Len(cmd.Upload) |-> <<"upload", k>>]
    \o (IF TemplatePopulated THEN << <<"template", 0>> >> ELSE <<>>)
    \o (IF cmd.Script # "" THEN << <<"script", 0>> >> ELSE <<>>)
    \o (IF cmd.Local # "" THEN << <<"local", 0>> >> ELSE <<>>)
    \o (IF cmd.Run # "" THEN << <<"run", 0>> >> ELSE <<>>)

\* The client sets of one group, from Once, Serial and the client list alone.
ExpectedSets(g) ==
    IF g[1] = "local" THEN << <<LocalhostClient>> >>
    ELSE IF g[1] # "template" /\ cmd.Once THEN << <<clients[1]>> >>
    ELSE IF cmd.Serial > 0 THEN Chunks(clients, cmd.Serial)
    ELSE << clients >>

ExpectedLayout ==
    Flatten([i \in DOMAIN GroupOrder |->
                [k \in DOMAIN ExpectedSets(GroupOrder[i]) |->
                    [sect |-> GroupOrder[i][1], entry |-> GroupOrder[i][2],
                     clients |-> ExpectedSets(GroupOrder[i])[k]]]])

Layout(ts) ==
    [k \in DOMAIN ts |->
        [sect |-> ts[k].sect, entry |-> ts[k].entry, clients |-> ts[k].clients]]

\* C4: the returned list holds the tasks of the Upload entries (in the order
\* of the Upload list), then the Template tasks, then the Script tasks, then
\* the Local task, then the Run tasks; inside a group the tasks are in chunk
\* order, and the chunks of a group are those Once, Serial and the client
\* list give, whichever other groups are populated.
C4_TaskOrder == Returned => Layout(result.tasks) = ExpectedLayout

C4_Witness ==
    /\ Returned /\ ~cmd.Once /\ cmd.Serial = 2 /\ Len(clients) = 3
    /\ Len(cmd.Upload) = 2 /\ TemplatePopulated
    /\ cmd.Script # "" /\ cmd.Local # "" /\ cmd.Run # ""
    /\ [k \in DOMAIN result.tasks |-> result.tasks[k].sect]
         = <<"upload", "upload", "upload", "upload", "template", "template",
             "script", "script", "local", "run", "run">>

\* C5: when a step fails (working directory, upload path or archive, opening,
\* reading or parsing the template, opening, reading or decoding the variable
\* file, opening or reading the script), createTasks returns a nil list and
\* a non-nil error, also when tasks had been built before; and when it
\* returns a nil error, no step has failed.
C5_AllOrNothing ==
    /\ failed # "" => (pc = "done" /\ result.tasks = <<>> /\ result.err # "")
    /\ (pc = "done" /\ result.err = "") => failed = ""

C5_Witness ==
    /\ failed = "template parse"
    /\ Len(tasks) > 0
    /\ pc = "done" /\ result.tasks = <<>> /\ result.err = "can't parse template"

\* C6: whenever Local is non-empty (and no step fails), createTasks emits
\* exactly one Local task, with TTY = true and the implicit localhost as its
\* only client, for every client list (the empty one included) and every
\* Once and Serial.
C6_ExactlyOneLocal ==
    (pc \in {"done", "panic"} /\ failed = "" /\ cmd.Local # "") =>
        LET ls == Group(result.tasks, <<"local", 0>>) IN
        /\ Len(ls) = 1
        /\ TTY(ls[1])
        /\ ls[1].clients = <<LocalhostClient>>

\* The payload a call returned: the contents of its buffer.
Payload(call) == heap[call.reader]

\* C7: InputForClient is idempotent and isolated per client: two calls for
\* the same client return the same payload (or the same error); each
\* successful call returns a buffer of its own; no later call changes a
\* payload already returned; and no call changes the returned tasks
\* (template, variable mapping, destination, client set).
C7_InputForClientIsolated ==
    /\ [](\A a, b \in DOMAIN calls :
            calls[a].client = calls[b].client =>
                /\ calls[a].err = calls[b].err
                /\ calls[a].err = "" => Payload(calls[a]) = Payload(calls[b]))
    /\ [](\A a, b \in DOMAIN calls :
            (a # b /\ calls[a].err = "" /\ calls[b].err = "") =>
                calls[a].reader # calls[b].reader)
    /\ [][\A a \in DOMAIN heap : heap'[a] = heap[a]]_vars
    /\ [][pc = "done" => result' = result]_vars

C7_Witness ==
    /\ Len(calls) = 2
    /\ calls[1].client # calls[2].client
    /\ calls[1].err = "" /\ calls[2].err = ""
    /\ Payload(calls[1]) = <<"host=", "host1", "web">>
    /\ Payload(calls[2]) = <<"host=", "host2", "web">>

\* The body of a command task, before any trace prefix.
Body(t) ==
    IF t.sect = "script" THEN data
    ELSE IF t.sect = "local" THEN cmd.Local
    ELSE cmd.Run

\* C8: with the debug flag set the command line of every returned Script,
\* Local and Run task, in every Serial batch, is "set -x;" followed by the
\* unmodified body (script file contents, Local string, Run string); with
\* the flag unset it is the body; the command lines of Upload and Template
\* tasks are the extract and the write-to-destination commands, never
\* prefixed.
C8_DebugPrefix ==
    Returned =>
        \A k \in DOMAIN result.tasks :
            LET t == result.tasks[k] IN
            IF t.sect = "upload"
            THEN Run(t) = RemoteTarCommand(cmd.Upload[t.entry].Dst)
            ELSE IF t.sect = "template"
            THEN Run(t) = "cat > " \o Quote(cmd.Template.Dst)
            ELSE Run(t) = (IF debug THEN "set -x;" \o Body(t) ELSE Body(t))

C8_Witness ==
    /\ Returned /\ debug /\ ~cmd.Once /\ cmd.Serial = 2 /\ Len(clients) = 3
    /\ Len(cmd.Upload) > 0 /\ TemplatePopulated
    /\ cmd.Script # "" /\ cmd.Local # "" /\ cmd.Run # ""
    /\ data = "set -x;ls"
    /\ ClientSets(Group(result.tasks, <<"script", 0>>)) = Chunks(clients, 2)
    /\ \A k \in 1..2 : Run(Group(result.tasks, <<"run", 0>>)[k]) = "set -x;uptime"

\* The Template section has run and appended its tasks.
TemplateBuilt ==
    TemplatePopulated /\ (pc \in {"script", "local", "run", "return"} \/ Returned)

\* C9: Once does not apply to templates: the Template tasks and their client
\* sets are those Serial and the client list give, so with Once = true and
\* Serial = 0 one template task targets the whole client list, and with
\* Once = true and Serial = N > 0 the tasks target the consecutive chunks of
\* size N.
C9_TemplateIgnoresOnce ==
    TemplateBuilt =>
        ClientSets(Group(tasks, <<"template", 0>>))
            = (IF cmd.Serial > 0 THEN Chunks(clients, cmd.Serial) ELSE << clients >>)

C9_Witness ==
    /\ Returned /\ cmd.Once /\ cmd.Serial = 0 /\ Len(clients) = 3
    /\ cmd.Run # ""
    /\ ClientSets(Group(result.tasks, <<"template", 0>>)) = << clients >>
    /\ ClientSets(Group(result.tasks, <<"run", 0>>)) = << <<clients[1]>> >>

\* C10: createTasks never aborts abnormally: it never reads clients at an
\* index outside 0..len(clients)-1, for every client list (the empty one
\* included), every Once and Serial >= 0 and every populated sub-kind.
C10_NeverPanics == pc # "panic"

====
